---------------------------- MODULE Spec2Model ----------------------------
(***************************************************************************)
(* A model of mikadoc/ppe-priority: the census-tract radius lookup of      *)
(* code/gis_manips.py, the SVI top-quartile count of                       *)
(* code/priority_algorithm.py and the two command line tools               *)
(* match_address_to_county.py and tracts_in_radius.py.                     *)
(*                                                                         *)
(* Geometry is planar, in integer metres.  Tract polygons are axis-aligned *)
(* rectangles; the "ball" of gis_manips.py is the polygon the code builds  *)
(* from n_points sampled directions.  Cosines and sines are kept as        *)
(* hundredths (TrigScale).                                                 *)
(***************************************************************************)
EXTENDS Integers, Sequences, FiniteSets, TLC

None == "None"
Unbound == "unbound"

(***************************************************************************)
(* Bounds of the model.                                                    *)
(***************************************************************************)
\* the largest mile_radius a caller passes
MaxMileRadius == 3

\* the most tracts a radius around a facility holds in the SVI data
MaxLocalTracts == 3

MileRadii == 1..MaxMileRadius

(***************************************************************************)
(* The world the program is run in: addresses, the geocoder's answers and  *)
(* the tract boundary files.                                               *)
(***************************************************************************)
Streets == {"77 Massachusetts Avenue", "1 Main Street"}
Cities == {"Cambridge", "Nashua"}
StateAbbrs == {"MA", "NH"}
Zipcodes == {"02139", "03060", "02108", "02840", "00000"}

\* (street_name_and_number, city, state, zip)
Addresses == [street_name_num : Streets, city : Cities, state : StateAbbrs, zipcode : Zipcodes]

\* A tract: its GEOID (FIPS), name, State-County FIPS and boundary rectangle.
Tract(g, nm, st, x0, y0, x1, y1) ==
    [GEOID |-> g, NAMELSAD |-> nm, STCOFIPS |-> st, x0 |-> x0, y0 |-> y0, x1 |-> x1, y1 |-> y1]

TractsMA ==
    { Tract("25017000100", "Census Tract 1", "25017", 0, 0, 2000, 2000),
      Tract("25017000200", "Census Tract 2", "25017", 2000, 0, 4000, 2000),
      Tract("25017000300", "Census Tract 3", "25017", 0, 2000, 2000, 4000),
      Tract("25025000100", "Census Tract 1", "25025", 2000, 2000, 4000, 4000),
      Tract("25025000200", "Census Tract 2", "25025", 4000, 0, 6000, 4000),
      Tract("25009000100", "Census Tract 1", "25009", 6000, 0, 9000, 4000),
      Tract("25027000100", "Census Tract 1", "25027", -3000, 0, -400, 4000) }

TractsNH ==
    { Tract("33011000100", "Census Tract 1", "33011", 0, 4000, 5000, 6000),
      Tract("33015000100", "Census Tract 1", "33015", 5000, 4000, 9000, 6000) }

AllTracts == TractsMA \cup TractsNH

(***************************************************************************)
(* code/gis_manips.py                                                      *)
(***************************************************************************)

\* FIPS_TRACT_NUM, restricted to the states of the model's world.
FIPS_TRACT_NUM == [ s \in {"25", "33", "44"} |->
    CASE s = "25" -> "MASSACHUSETTS"
      [] s = "33" -> "NEW HAMPSHIRE"
      [] s = "44" -> "RHODE ISLAND" ]

\* str.upper() on the state names the geocoder answers with.
Upper(s) ==
    CASE s = "Massachusetts" -> "MASSACHUSETTS"
      [] s = "New Hampshire" -> "NEW HAMPSHIRE"
      [] s = "Rhode Island" -> "RHODE ISLAND"
      [] OTHER -> s

\* None, as locator.geocode answers it: a value without longitude, latitude
\* or address.
NoneLocation == [found |-> FALSE, longitude |-> 0, latitude |-> 0, address |-> <<>>]

\* Nominatim's geocode(address): a location (longitude, latitude, address) or
\* None.  The geocoder reads the whole address text: the street decides the
\* point.  The address it answers with is a comma-separated text, kept as the
\* sequence of its parts.
Nominatim(a) ==
    CASE a.zipcode = "02139" /\ a.street_name_num = "77 Massachusetts Avenue" ->
            [found |-> TRUE, longitude |-> 1200, latitude |-> 1400,
             address |-> <<a.street_name_num, a.city, "Middlesex County", "Massachusetts", "02139", "United States">>]
      [] a.zipcode = "02139" /\ a.street_name_num = "1 Main Street" ->
            [found |-> TRUE, longitude |-> 3100, latitude |-> 1500,
             address |-> <<a.street_name_num, a.city, "Middlesex County", "Massachusetts", "02139", "United States">>]
      [] a.zipcode = "03060" /\ a.street_name_num = "77 Massachusetts Avenue" ->
            [found |-> TRUE, longitude |-> 2500, latitude |-> 4600,
             address |-> <<a.street_name_num, a.city, "Hillsborough County", "New Hampshire", "03060", "United States">>]
      [] a.zipcode = "03060" /\ a.street_name_num = "1 Main Street" /\ a.city = "Nashua" ->
            \* an answer without a postcode part
            [found |-> TRUE, longitude |-> 4500, latitude |-> 5000,
             address |-> <<a.street_name_num, a.city, "Hillsborough County", "New Hampshire", "United States">>]
      [] a.zipcode = "03060" /\ a.street_name_num = "1 Main Street" /\ a.city = "Cambridge" ->
            \* an answer that names only a state and a country
            [found |-> TRUE, longitude |-> 4500, latitude |-> 5000,
             address |-> <<"New Hampshire", "United States">>]
      [] OTHER -> NoneLocation

\* re.search(r", ([^,]+), ([^,]+), ([^,]+)$", location.address): the match
\* needs three commas, and group(1) is the third part from the end.
StateRegex(parts) ==
    IF Len(parts) >= 4 THEN parts[Len(parts) - 2] ELSE None

\* [key for key, val in FIPS_TRACT_NUM.items() if val == state.upper()]
FipsKeys(state) == { k \in DOMAIN FIPS_TRACT_NUM : FIPS_TRACT_NUM[k] = Upper(state) }

\* What gpd.read_file can find at {fips_tract_num}.geojson: the state's
\* tracts, a feature collection without features, or a file that does not
\* parse (read_file raises).
Parsed(rows) == [parses |-> TRUE, rows |-> rows]
Unparsable == [parses |-> FALSE, rows |-> {}]
FileContents(fips) ==
    CASE fips = "25" -> {Parsed(TractsMA), Parsed({}), Unparsable}
      [] fips = "33" -> {Parsed(TractsNH), Parsed({}), Unparsable}
      [] OTHER -> {Parsed({}), Unparsable}

\* A name that is not bound yet, for the data frame and for the coordinates.
NoFrame == [bound |-> FALSE, rows |-> {}]
Frame(rows) == [bound |-> TRUE, rows |-> rows]
NoCoords == <<>>

n_points == 20

\* np.linspace(0, 360, n_points): the first and the last angle are the same
\* direction, so the polygon has n_points - 1 corners.
NCorners == n_points - 1

\* 100 * cos and 100 * sin of angles[k] = k * 360 / (n_points - 1), k = 0..18
COS == <<100, 95, 79, 55, 25, -8, -40, -68, -88, -99, -99, -88, -68, -40, -8, 25, 55, 79, 95>>
SIN == <<0, 32, 61, 84, 97, 100, 92, 74, 48, 16, -16, -48, -74, -92, -100, -97, -84, -61, -32>>

\* The scale of the two tables: the entry for cos 0 = 1.
TrigScale == COS[1]

\* metres per mile, as gis_manips.py has it
MetersPerMileGis == 1609

\* BallD with the radius dividing instead of multiplying.
BallDDivided(mile_radius) == MetersPerMileGis \div mile_radius

\* d = mile_radius * 1609  # meters
BallD(mile_radius) == mile_radius * MetersPerMileGis

\* geog.propagate(p, angles, d): corner k of the ball, times TrigScale.
\* angles are in the mathematical convention (0 = east, counterclockwise).
RadiusBallArray(p, d) ==
    [ k \in 1..NCorners |-> <<TrigScale * p[1] + d * COS[k], TrigScale * p[2] + d * SIN[k]>> ]

NextCorner(k) == IF k = NCorners THEN 1 ELSE k + 1

\* The corners of a tract's rectangle, times TrigScale.
Corners(t) ==
    { <<TrigScale * t.x0, TrigScale * t.y0>>, <<TrigScale * t.x1, TrigScale * t.y0>>,
      <<TrigScale * t.x1, TrigScale * t.y1>>, <<TrigScale * t.x0, TrigScale * t.y1>> }

\* q lies strictly to the left of the directed edge a -> b.  The edge of a
\* ball is d times a difference of table entries; the sign is taken after
\* dividing the common factor out, which keeps the products small.
LeftOf(a, b, q, d) ==
    ((b[1] - a[1]) \div d) * (q[2] - a[2]) - ((b[2] - a[2]) \div d) * (q[1] - a[1]) > 0

\* shapely: the ball polygon and the tract polygon share area.  Both are
\* convex, so they do unless an edge line of one has the other wholly on its
\* outer side.
SharesArea(t, ball, d) ==
    /\ \A k \in 1..NCorners :
          \E q \in Corners(t) : LeftOf(ball[k], ball[NextCorner(k)], q, d)
    /\ \E k \in 1..NCorners : ball[k][1] > TrigScale * t.x0
    /\ \E k \in 1..NCorners : ball[k][1] < TrigScale * t.x1
    /\ \E k \in 1..NCorners : ball[k][2] > TrigScale * t.y0
    /\ \E k \in 1..NCorners : ball[k][2] < TrigScale * t.y1

\* gpd.overlay(state_dataframe, radius_ball_dataframe, how="intersection")
\* and the read-out of its GEOID column.
OverlayIntersection(frame, p, mile_radius) ==
    LET d == BallD(mile_radius)
        ball == RadiusBallArray(p, d)
    IN  { t \in frame : SharesArea(t, ball, d) }

GeoidsOf(rows) == { t.GEOID : t \in rows }

(***************************************************************************)
(* code/priority_algorithm.py: the vulnerability score from the local SVI  *)
(***************************************************************************)

\* svi_data: the tracts with an SVI value, by FIPS; each lies in the county
\* its FIPS starts with.
SviValue ==
    [ f \in {"25017000100", "25017000200", "25017000300", "25009000100",
              "25025000100", "25025000200"} |->
        CASE f = "25017000100" -> 10
          [] f = "25017000200" -> 20
          [] f = "25017000300" -> 30
          [] f = "25009000100" -> 40
          [] f = "25025000100" -> 35
          [] f = "25025000200" -> 5 ]

SviFips == DOMAIN SviValue

CountyOf(f) == SubSeq(f, 1, 5)

\* county identifiers: those of svi_data and one it has no tract of
Counties == {"25017", "25009", "25025", "33011"}

\* The percentiles the count is taken at.  The code writes 75; its docstring
\* speaks of the top Nth percentile.
TOP_PERCENTILE == 75
Percentiles == {0, TOP_PERCENTILE, 100}

\* get_radius_svis: the tracts of svi_data within the radius, whose SVI
\* values make up the array it returns.
RadiusTractSets == { L \in SUBSET SviFips : Cardinality(L) <= MaxLocalTracts }

\* get_regional_svis / get_county_svis: the tracts of svi_data within a set
\* of counties.
get_regional_svis(counties_list) == { f \in SviFips : CountyOf(f) \in counties_list }

\* np.sort: the SVI values of a set of tracts in ascending order.
RECURSIVE SortedSvis(_)
SortedSvis(F) ==
    IF F = {} THEN <<>>
    ELSE LET m == CHOOSE f \in F : \A g \in F : SviValue[f] <= SviValue[g]
         IN  <<SviValue[m]>> \o SortedSvis(F \ {m})

\* A score: not-a-number, or a number kept as hundredths.
NaN == [nan |-> TRUE, x100 |-> 0]
Num100(x) == [nan |-> FALSE, x100 |-> x]

\* scoreatpercentile with the position taken as per / 100 * (n + 1) - 1, kept
\* within the array: the estimator that excludes the end points.
scoreatpercentileExclusive(F, per) ==
    LET sorted == SortedSvis(F)
        n == Len(sorted)
        raw100 == per * (n + 1) - 100
        idx100 == IF raw100 < 0 THEN 0 ELSE IF raw100 > 100 * (n - 1) THEN 100 * (n - 1) ELSE raw100
        i == idx100 \div 100
        w == idx100 % 100
    IN  IF n = 0 THEN NaN
        ELSE IF w = 0 THEN Num100(100 * sorted[i + 1])
        ELSE Num100((100 - w) * sorted[i + 1] + w * sorted[i + 2])

\* scipy.stats.scoreatpercentile(a, per) with interpolation_method
\* 'fraction': nan for an empty array; else idx = per / 100 * (n - 1) and
\* the value at idx, interpolated between its two neighbours by weight.
scoreatpercentile(F, per) ==
    LET sorted == SortedSvis(F)
        n == Len(sorted)
        idx100 == per * (n - 1)
        i == idx100 \div 100
        w == idx100 % 100
    IN  IF n = 0 THEN NaN
        ELSE IF w = 0 THEN Num100(100 * sorted[i + 1])
        ELSE Num100((100 - w) * sorted[i + 1] + w * sorted[i + 2])

\* local_svis >= score, element by element; a comparison with nan is False.
GreaterEqual(v, score) == ~score.nan /\ 100 * v >= score.x100

\* np.sum(local_svis >= score): the number of True entries
top_quartile_count(local, score) ==
    Cardinality({ f \in local : GreaterEqual(SviValue[f], score) })

\* a is b on two strings: True only for equal strings, and then only when
\* the interpreter holds them as one object.
IsOutcomes(a, b) == IF a = b THEN {TRUE, FALSE} ELSE {FALSE}

VARIABLES
    pc,                   \* where get_sourrounding_census_tracts stands
    address,              \* its parameter address
    mile_radius,          \* its parameter mile_radius
    location,             \* locator.geocode(address)
    coords,               \* [location.longitude, location.latitude]
    printed,              \* the "No valid coordinates" message was printed
    fips_tract_num,
    state_dataframe,      \* the tracts read in, Unbound before the read
    census_tract_geoids,  \* the returned GEOIDs
    raised,               \* the exception the call ended with
    prev                  \* the answer of the call before this one

gisVars == <<pc, address, mile_radius, location, coords, printed, fips_tract_num,
             state_dataframe, census_tract_geoids, raised, prev>>

VARIABLES
    cli_pc,      \* "idle", or "exited" once a command has run
    cli_cmd,     \* the command that ran
    cli_args,    \* its parsed arguments
    cli_shp,     \* what tracts_usna.shp held when it ran
    cli_point,   \* the point the address resolved to, projected; <<>> if none
    cli_loaded,  \* the boundary dataset was loaded
    cli_queried, \* a tract query ran
    cli_radius,  \* the radius handed to get_radius_tracts, in centimetres
    cli_out,     \* what the command printed
    cli_raised,  \* the failure it ended with
    cli_last     \* the run before this one

cliVars == <<cli_pc, cli_cmd, cli_args, cli_shp, cli_point, cli_loaded, cli_queried,
             cli_radius, cli_out, cli_raised, cli_last>>

VARIABLES
    vpc,                          \* where the vulnerability script stands
    COUNTIES_LIST,                \* the region: a set of counties
    SVI_COMPARISON,               \* 'region' or 'county'
    percentile,                   \* the percentile of the two counts
    local_svis,                   \* the tracts whose SVI values get_radius_svis returned
    regional_svis,                \* the tracts behind get_regional_svis' array
    county,
    county_svis,
    regional_score,               \* stats.scoreatpercentile(regional_svis, 75)
    county_score,                 \* stats.scoreatpercentile(county_svis, 75)
    regional_top_quartile_count,  \* what each count returned: a sequence of values
    county_top_quartile_count,
    vuln_score

vulnVars == <<vpc, COUNTIES_LIST, SVI_COMPARISON, percentile, local_svis, regional_svis,
              county, county_svis, regional_score, county_score,
              regional_top_quartile_count, county_top_quartile_count, vuln_score>>

VARIABLES
    upc,             \* where the urgency section stands
    dat,             \* dat.loc[row_idx, ...]: the row being scored
    URGENCY_WEIGHT,  \* the multiplier of the urgency domain
    urgency_score,   \* a sequence of one number once bound, <<>> before
    need_score,      \* likewise
    urg_raised,      \* the exception the section ended with
    urg_last         \* the row scored before this one and its urgency score

urgVars == <<upc, dat, URGENCY_WEIGHT, urgency_score, need_score, urg_raised, urg_last>>

vars == <<gisVars, vulnVars, cliVars, urgVars>>

VulnInit ==
    /\ vpc = "settings"
    /\ COUNTIES_LIST = {}
    /\ SVI_COMPARISON = Unbound
    /\ percentile = TOP_PERCENTILE
    /\ local_svis = {}
    /\ regional_svis = {}
    /\ county = Unbound
    /\ county_svis = {}
    /\ regional_score = NaN
    /\ county_score = NaN
    /\ regional_top_quartile_count = <<>>
    /\ county_top_quartile_count = <<>>
    /\ vuln_score = 0

\* The settings the script reads but does not set: the region's counties, the
\* comparison and the percentile.
Settings(counties_list, comparison, per) ==
    /\ vpc = "settings"
    /\ COUNTIES_LIST' = counties_list
    /\ SVI_COMPARISON' = comparison
    /\ percentile' = per
    /\ vpc' = "get_radius_svis"
    /\ UNCHANGED <<local_svis, regional_svis, county, county_svis, regional_score,
                   county_score, regional_top_quartile_count, county_top_quartile_count,
                   vuln_score>>
    /\ UNCHANGED <<gisVars, cliVars, urgVars>>

\* local_svis = get_radius_svis(svi_data, facility_address, RADIUS)
GetRadiusSvis ==
    /\ vpc = "get_radius_svis"
    /\ local_svis' \in RadiusTractSets
    /\ vpc' = "get_regional_svis"
    /\ UNCHANGED <<COUNTIES_LIST, SVI_COMPARISON, percentile, regional_svis, county,
                   county_svis, regional_score, county_score, regional_top_quartile_count,
                   county_top_quartile_count, vuln_score>>
    /\ UNCHANGED <<gisVars, cliVars, urgVars>>

\* regional_svis = get_regional_svis(svi_data, COUNTIES_LIST)
GetRegionalSvis ==
    /\ vpc = "get_regional_svis"
    /\ regional_svis' = get_regional_svis(COUNTIES_LIST)
    /\ vpc' = "get_county"
    /\ UNCHANGED <<COUNTIES_LIST, SVI_COMPARISON, percentile, local_svis, county,
                   county_svis, regional_score, county_score, regional_top_quartile_count,
                   county_top_quartile_count, vuln_score>>
    /\ UNCHANGED <<gisVars, cliVars, urgVars>>

\* county = get_county(facility_address); county_svis = get_county_svis(svi_data, county)
GetCountySvis ==
    /\ vpc = "get_county"
    /\ \E c \in Counties :
          /\ county' = c
          /\ county_svis' = get_regional_svis({c})
    /\ vpc' = "regional_count"
    /\ UNCHANGED <<COUNTIES_LIST, SVI_COMPARISON, percentile, local_svis, regional_svis,
                   regional_score, county_score, regional_top_quartile_count,
                   county_top_quartile_count, vuln_score>>
    /\ UNCHANGED <<gisVars, cliVars, urgVars>>

\* regional_top_quartile_count = np.sum(local_svis >= scoreatpercentile(regional_svis, 75))
RegionalTopQuartileCount ==
    /\ vpc = "regional_count"
    /\ regional_score' = scoreatpercentile(regional_svis, percentile)
    /\ regional_top_quartile_count' = <<top_quartile_count(local_svis, regional_score')>>
    /\ vpc' = "county_count"
    /\ UNCHANGED <<COUNTIES_LIST, SVI_COMPARISON, percentile, local_svis, regional_svis,
                   county, county_svis, county_score, county_top_quartile_count, vuln_score>>
    /\ UNCHANGED <<gisVars, cliVars, urgVars>>

\* county_top_quartile_count = np.sum(local_svis >= scoreatpercentile(county_svis, 75))
CountyTopQuartileCount ==
    /\ vpc = "county_count"
    /\ county_score' = scoreatpercentile(county_svis, percentile)
    /\ county_top_quartile_count' = <<top_quartile_count(local_svis, county_score')>>
    /\ vpc' = "add"
    /\ UNCHANGED <<COUNTIES_LIST, SVI_COMPARISON, percentile, local_svis, regional_svis,
                   county, county_svis, regional_score, regional_top_quartile_count,
                   vuln_score>>
    /\ UNCHANGED <<gisVars, cliVars, urgVars>>

\* if SVI_COMPARISON is 'region': ... elif SVI_COMPARISON is 'county': ...
AddToVulnScore ==
    /\ vpc = "add"
    /\ \E isRegion \in IsOutcomes(SVI_COMPARISON, "region"),
          isCounty \in IsOutcomes(SVI_COMPARISON, "county") :
          vuln_score' =
             IF isRegion THEN vuln_score + regional_top_quartile_count[1]
             ELSE IF isCounty THEN vuln_score + county_top_quartile_count[1]
             ELSE vuln_score
    /\ vpc' = "done"
    /\ UNCHANGED <<COUNTIES_LIST, SVI_COMPARISON, percentile, local_svis, regional_svis,
                   county, county_svis, regional_score, county_score,
                   regional_top_quartile_count, county_top_quartile_count>>
    /\ UNCHANGED <<gisVars, cliVars, urgVars>>

VulnNext ==
    \/ \E cl \in SUBSET (Counties \ {"33011"}), cmp \in {"region", "county"}, per \in Percentiles :
          Settings(cl, cmp, per)
    \/ GetRadiusSvis
    \/ GetRegionalSvis
    \/ GetCountySvis
    \/ RegionalTopQuartileCount
    \/ CountyTopQuartileCount
    \/ AddToVulnScore

(***************************************************************************)
(* priority_algorithm.py, the urgency score                                *)
(***************************************************************************)

\* the largest multiplier and the largest earlier need score tried
MaxUrgencyWeight == 2
MaxNeedScore == 1

\* What a request reports in "Current Supply": the five answers the code
\* names and one the comments announce for future data.
CurrentSupplyValues ==
    {"No supply remaining", "2 days or less", "1 week or less", "2 weeks or less",
     "More than 2 weeks", "1-3 days"}

\* What a request reports in "Item Surge Capacity".
SurgeCapacityValues == {"Conventional", "Contingency", "Crisis"}

Rows == [supply : CurrentSupplyValues, surge : SurgeCapacityValues]
NoRow == [supply |-> "", surge |-> ""]

\* if dat.loc[row_idx,"Current Supply"] is "No supply remaining": urgency_score += 5
\* elif ... is "2 days or less": += 4 ... elif ... is "More than 2 weeks": += 1
CurrentSupplyChain ==
    << [lit |-> "No supply remaining", by |-> 5],
       [lit |-> "2 days or less", by |-> 4],
       [lit |-> "1 week or less", by |-> 3],
       [lit |-> "2 weeks or less", by |-> 2],
       [lit |-> "More than 2 weeks", by |-> 1] >>

\* if dat.loc[row_idx,"Item Surge Capacity"] is "Conventional": need_score *= 1
\* elif ... is "Contingency": need_score *= 10 elif ... is "Crisis": need_score *= 100
SurgeCapacityChain ==
    << [lit |-> "Conventional", by |-> 1],
       [lit |-> "Contingency", by |-> 10],
       [lit |-> "Crisis", by |-> 100] >>

\* What the tests of an if/elif chain of "value is literal" can come to.
ChainTests(chain, value) ==
    { t \in [DOMAIN chain -> BOOLEAN] :
        \A i \in DOMAIN chain : t[i] \in IsOutcomes(value, chain[i].lit) }

\* The branch of the chain that runs: the first whose test is True, 0 if none.
BranchTaken(chain, t) ==
    IF \E i \in DOMAIN chain : t[i]
    THEN CHOOSE i \in DOMAIN chain : t[i] /\ \A j \in 1..(i - 1) : ~t[j]
    ELSE 0

UrgInit ==
    /\ upc = "weights"
    /\ dat = NoRow
    /\ URGENCY_WEIGHT = <<>>
    /\ urgency_score = <<>>
    /\ need_score = <<>>
    /\ urg_raised = None
    /\ urg_last = [dat |-> NoRow, urgency_score |-> <<>>]

\* URGENCY_WEIGHT, which the section reads and the file does not set.
Weights(w) ==
    /\ upc = "weights"
    /\ URGENCY_WEIGHT' = <<w>>
    /\ upc' = "row"
    /\ UNCHANGED <<dat, urgency_score, need_score, urg_raised, urg_last>>
    /\ UNCHANGED <<gisVars, vulnVars, cliVars>>

\* urgency_score = 0, for the row dat.loc[row_idx].  need_score is read
\* further down and bound nowhere above: it is what the program around the
\* section left it, a number or no binding at all.
Row(r, need) ==
    /\ upc = "row"
    /\ dat' = r
    /\ urgency_score' = <<0>>
    /\ need_score' = need
    /\ urg_raised' = None
    /\ upc' = "current_supply"
    /\ UNCHANGED <<URGENCY_WEIGHT, urg_last>>
    /\ UNCHANGED <<gisVars, vulnVars, cliVars>>

\* Assign points based on how long current supply is predicted to last.
CurrentSupply ==
    /\ upc = "current_supply"
    /\ \E t \in ChainTests(CurrentSupplyChain, dat.supply) :
          LET b == BranchTaken(CurrentSupplyChain, t)
          IN  urgency_score' = IF b = 0 THEN urgency_score
                               ELSE <<urgency_score[1] + CurrentSupplyChain[b].by>>
    /\ upc' = "surge_capacity"
    /\ UNCHANGED <<dat, URGENCY_WEIGHT, need_score, urg_raised, urg_last>>
    /\ UNCHANGED <<gisVars, vulnVars, cliVars>>

\* The surge scaling: need_score *= 1, 10 or 100; a NameError where
\* need_score has no binding.
SurgeCapacity ==
    /\ upc = "surge_capacity"
    /\ \E t \in ChainTests(SurgeCapacityChain, dat.surge) :
          LET b == BranchTaken(SurgeCapacityChain, t)
          IN  IF b = 0
              THEN /\ upc' = "weight"
                   /\ UNCHANGED <<need_score, urg_raised>>
              ELSE IF need_score = <<>>
              THEN /\ upc' = "raised"
                   /\ urg_raised' = "NameError"
                   /\ UNCHANGED need_score
              ELSE /\ upc' = "weight"
                   /\ need_score' = <<need_score[1] * SurgeCapacityChain[b].by>>
                   /\ UNCHANGED urg_raised
    /\ UNCHANGED <<dat, URGENCY_WEIGHT, urgency_score, urg_last>>
    /\ UNCHANGED <<gisVars, vulnVars, cliVars>>

\* urgency_score = urgency_score * URGENCY_WEIGHT
Weight ==
    /\ upc = "weight"
    /\ urgency_score' = <<urgency_score[1] * URGENCY_WEIGHT[1]>>
    /\ upc' = "scored"
    /\ UNCHANGED <<dat, URGENCY_WEIGHT, need_score, urg_raised, urg_last>>
    /\ UNCHANGED <<gisVars, vulnVars, cliVars>>

\* On to the next request; the row just scored is kept for comparison.
NextRow ==
    /\ upc \in {"scored", "raised"}
    /\ upc' = "row"
    /\ urg_last' = IF upc = "scored" THEN [dat |-> dat, urgency_score |-> urgency_score]
                   ELSE urg_last
    /\ UNCHANGED <<dat, URGENCY_WEIGHT, urgency_score, need_score, urg_raised>>
    /\ UNCHANGED <<gisVars, vulnVars, cliVars>>

UrgNext ==
    \/ \E w \in 1..MaxUrgencyWeight : Weights(w)
    \/ \E r \in Rows, need \in {<<>>} \cup { <<n>> : n \in 0..MaxNeedScore } : Row(r, need)
    \/ CurrentSupply
    \/ SurgeCapacity
    \/ Weight
    \/ NextRow

NoAddress == [street_name_num |-> "", city |-> "", state |-> "", zipcode |-> ""]
NoAnswer == [zipcode |-> "", coords |-> NoCoords, frame |-> NoFrame, mile_radius |-> 0,
             geoids |-> {}]

GisInit ==
    /\ pc = "idle"
    /\ address = NoAddress
    /\ mile_radius = 0
    /\ location = NoneLocation
    /\ coords = NoCoords
    /\ printed = FALSE
    /\ fips_tract_num = Unbound
    /\ state_dataframe = NoFrame
    /\ census_tract_geoids = {}
    /\ raised = None
    /\ prev = NoAnswer

\* A caller enters get_sourrounding_census_tracts(address, mile_radius).
Call(a, r) ==
    /\ pc = "idle"
    /\ pc' = "geocode"
    /\ address' = a
    /\ mile_radius' = r
    /\ location' = NoneLocation
    /\ coords' = NoCoords
    /\ printed' = FALSE
    /\ fips_tract_num' = Unbound
    /\ state_dataframe' = NoFrame
    /\ census_tract_geoids' = {}
    /\ raised' = None
    /\ UNCHANGED prev
    /\ UNCHANGED <<vulnVars, cliVars, urgVars>>

\* location = locator.geocode(address)
Geocode ==
    /\ pc = "geocode"
    /\ location' = Nominatim(address)
    /\ pc' = "read_coords"
    /\ UNCHANGED <<address, mile_radius, coords, printed, fips_tract_num, state_dataframe,
                   census_tract_geoids, raised, prev>>
    /\ UNCHANGED <<vulnVars, cliVars, urgVars>>

\* try: coords = [...]  except AttributeError: print(...)
\* The handler prints and the function goes on, coords unbound.
ReadCoords ==
    /\ pc = "read_coords"
    /\ IF ~location.found
         THEN printed' = TRUE /\ UNCHANGED coords
         ELSE coords' = <<location.longitude, location.latitude>> /\ UNCHANGED printed
    /\ pc' = "read_state"
    /\ UNCHANGED <<address, mile_radius, location, fips_tract_num, state_dataframe,
                   census_tract_geoids, raised, prev>>
    /\ UNCHANGED <<vulnVars, cliVars, urgVars>>

\* state = re.search(...).group(1); fips_tract_num = [...][0]
\* None has no attribute address, and no match has no group: AttributeError.
\* A state that is no value of FIPS_TRACT_NUM leaves an empty list: IndexError.
ReadState ==
    /\ pc = "read_state"
    /\ IF ~location.found \/ StateRegex(location.address) = None
         THEN /\ raised' = "AttributeError"
              /\ pc' = "raised"
              /\ UNCHANGED fips_tract_num
         ELSE IF FipsKeys(StateRegex(location.address)) = {}
         THEN /\ raised' = "IndexError"
              /\ pc' = "raised"
              /\ UNCHANGED fips_tract_num
         ELSE /\ fips_tract_num' = CHOOSE k \in FipsKeys(StateRegex(location.address)) : TRUE
              /\ pc' = "read_file"
              /\ UNCHANGED raised
    /\ UNCHANGED <<address, mile_radius, location, coords, printed, state_dataframe,
                   census_tract_geoids, prev>>
    /\ UNCHANGED <<vulnVars, cliVars, urgVars>>

\* state_dataframe = gpd.read_file(...)
ReadFile ==
    /\ pc = "read_file"
    /\ \E content \in FileContents(fips_tract_num) :
          IF ~content.parses
            THEN /\ raised' = "DriverError"
                 /\ pc' = "raised"
                 /\ UNCHANGED state_dataframe
            ELSE /\ state_dataframe' = Frame(content.rows)
                 /\ pc' = "overlay"
                 /\ UNCHANGED raised
    /\ UNCHANGED <<address, mile_radius, location, coords, printed, fips_tract_num,
                   census_tract_geoids, prev>>
    /\ UNCHANGED <<vulnVars, cliVars, urgVars>>

\* The ball, the overlay and the return of the GEOIDs.
Overlay ==
    /\ pc = "overlay"
    /\ census_tract_geoids' = GeoidsOf(OverlayIntersection(state_dataframe.rows, coords, mile_radius))
    /\ pc' = "returned"
    /\ UNCHANGED <<address, mile_radius, location, coords, printed, fips_tract_num,
                   state_dataframe, raised, prev>>
    /\ UNCHANGED <<vulnVars, cliVars, urgVars>>

\* The call is over; the caller keeps what it returned.
Finish ==
    /\ pc \in {"returned", "raised"}
    /\ pc' = "idle"
    /\ prev' = IF pc = "returned"
                 THEN [zipcode |-> address.zipcode, coords |-> coords,
                       frame |-> state_dataframe, mile_radius |-> mile_radius,
                       geoids |-> census_tract_geoids]
                 ELSE prev
    /\ UNCHANGED <<address, mile_radius, location, coords, printed, fips_tract_num,
                   state_dataframe, census_tract_geoids, raised>>
    /\ UNCHANGED <<vulnVars, cliVars, urgVars>>

GisNext ==
    \/ \E a \in Addresses, r \in MileRadii : Call(a, r)
    \/ Geocode
    \/ ReadCoords
    \/ ReadState
    \/ ReadFile
    \/ Overlay
    \/ Finish

(***************************************************************************)
(* The resolvers of code.priority_algorithm that the command line tools    *)
(* import (get_county, get_radius_tracts, miles_to_meters) and the         *)
(* components they are composed of, after sections 4.1 to 4.4 of the       *)
(* specification.                                                          *)
(***************************************************************************)

\* The postal-code gazetteer: for each code its records, (latitude,
\* longitude) in thousandths of a degree.  A code may have several records.
Gazetteer ==
    [ z \in {"02139", "03060", "02108", "02840"} |->
        CASE z = "02139" -> << [lat |-> 42363, lon |-> -71105], [lat |-> 42365, lon |-> -71104] >>
          [] z = "03060" -> << [lat |-> 42391, lon |-> -71090] >>
          [] z = "02108" -> << [lat |-> 42359, lon |-> -71070] >>
          [] z = "02840" -> << [lat |-> 42300, lon |-> -71100] >> ]

Failure(name) == [raised |-> name, value |-> <<>>]
Success(v) == [raised |-> None, value |-> v]

\* GeoResolver.resolve_point(postal_code): the first record of the code, or
\* UnknownPostalCode.
resolve_point(postal_code) ==
    IF postal_code \in DOMAIN Gazetteer
      THEN Success(<<Gazetteer[postal_code][1].lon, Gazetteer[postal_code][1].lat>>)
      ELSE Failure("UnknownPostalCode")

\* metres per thousandth of a degree of longitude and of latitude near the
\* origin of the model's plane, and that origin
LonMetres == 80
LatMetres == 111
OriginLon == -71120
OriginLat == 42350

\* Reprojection of an EPSG:4326 point to the planar CRS of the index.
Reproject(p) == <<LonMetres * (p[1] - OriginLon), LatMetres * (p[2] - OriginLat)>>

\* What the boundary dataset file can hold.
ShpContents == {Parsed(AllTracts), Parsed({}), Unparsable}

\* TractIndex.load(boundary_source): IndexLoadError for a dataset that does
\* not parse or is empty.
load(content) ==
    IF content.parses /\ content.rows # {}
      THEN Success(content.rows)
      ELSE Failure("IndexLoadError")

\* The polygon of t contains p, its boundary included.
Contains(t, p) == t.x0 <= p[1] /\ p[1] <= t.x1 /\ t.y0 <= p[2] /\ p[2] <= t.y1

\* TractIndex.query_containing(point): the STCOFIPS of every tract whose
\* polygon contains the point.
query_containing(index, p) == { t.STCOFIPS : t \in { u \in index : Contains(u, p) } }

\* 1 mile = 1609.34 meters, as centimetres
CentimetresPerMile == 160934

\* miles_to_meters(miles), as centimetres
miles_to_meters(miles) == miles * CentimetresPerMile

\* The square of the distance in metres from p to the nearest point of t.
Distance2(t, p) ==
    LET dx == IF p[1] < t.x0 THEN t.x0 - p[1] ELSE IF p[1] > t.x1 THEN p[1] - t.x1 ELSE 0
        dy == IF p[2] < t.y0 THEN t.y0 - p[2] ELSE IF p[2] > t.y1 THEN p[2] - t.y1 ELSE 0
    IN  dx * dx + dy * dy

\* d2 (square metres) is less than the square of r (centimetres); r = 100a + b.
LessThanSquare(d2, r) ==
    LET a == r \div 100
        b == r % 100
        q == a * a + (200 * a * b + b * b) \div 10000
        rest == (200 * a * b + b * b) % 10000
    IN  d2 < q \/ (d2 = q /\ rest > 0)

\* TractIndex.query_intersecting(buffer): the FIPS of every tract whose
\* polygon shares area with the disk of the radius around the point.
query_intersecting(index, p, radius) ==
    { t.GEOID : t \in { u \in index : LessThanSquare(Distance2(u, p), radius) } }

\* A resolver's outcome: what it raised or returned, and how far it got.
Outcome(res, point, loaded, queried) ==
    [raised |-> res.raised, value |-> res.value, point |-> point, loaded |-> loaded,
     queried |-> queried]

\* get_county with the point taken from a geocoder that reads the whole
\* address, as get_sourrounding_census_tracts takes it.
get_countyGeocoded(content, facility_address) ==
    LET loc == Nominatim([street_name_num |-> facility_address[1], city |-> facility_address[2],
                          state |-> facility_address[3], zipcode |-> facility_address[4]])
        point == <<loc.longitude, loc.latitude>>
        index == load(content)
    IN  IF ~loc.found THEN Outcome(Failure("UnknownPostalCode"), <<>>, FALSE, FALSE)
        ELSE IF index.raised # None THEN Outcome(index, point, FALSE, FALSE)
        ELSE Outcome(Success(query_containing(index.value, point)), point, TRUE, TRUE)

\* CountyResolver: get_county(census_tract_geom_fp, facility_address), the
\* boundary file holding content.  Only the postal code of the address is
\* read.
get_county(content, facility_address) ==
    LET pt == resolve_point(facility_address[4])
        index == load(content)
    IN  IF pt.raised # None THEN Outcome(pt, <<>>, FALSE, FALSE)
        ELSE IF index.raised # None THEN Outcome(index, Reproject(pt.value), FALSE, FALSE)
        ELSE Outcome(Success(query_containing(index.value, Reproject(pt.value))),
                     Reproject(pt.value), TRUE, TRUE)

\* RadiusQuery: get_radius_tracts(census_tract_geom_fp, facility_address, radius)
get_radius_tracts(content, facility_address, radius) ==
    LET pt == resolve_point(facility_address[4])
        index == load(content)
    IN  IF pt.raised # None THEN Outcome(pt, <<>>, FALSE, FALSE)
        ELSE IF index.raised # None THEN Outcome(index, Reproject(pt.value), FALSE, FALSE)
        ELSE IF radius <= 0 THEN Outcome(Failure("InvalidRadius"), Reproject(pt.value), TRUE, FALSE)
        ELSE Outcome(Success(query_intersecting(index.value, Reproject(pt.value), radius)),
                     Reproject(pt.value), TRUE, TRUE)

(***************************************************************************)
(* match_address_to_county.py and tracts_in_radius.py                      *)
(***************************************************************************)

\* the miles tracts_in_radius.py asks for
RADIUS_MILES == 5

\* the values of --radius the tools are run with
MaxRadiusArg == 2
RadiusArgs == 1..MaxRadiusArg

\* The tuple with the state and the zipcode in each other's place.
FacilityAddressSwapped(args) == <<args.street_name_num, args.city, args.zipcode, args.state>>

\* facility_address = (args.street_name_num, args.city, args.state, args.zipcode)
FacilityAddress(args) == <<args.street_name_num, args.city, args.state, args.zipcode>>

NoArgs == [street_name_num |-> "", city |-> "", state |-> "", zipcode |-> "", radius |-> 0]
NoRun == [cmd |-> "", address |-> <<"", "", "", "">>, shp |-> Unparsable, point |-> <<>>,
          out |-> {}, raised |-> None]

CliInit ==
    /\ cli_pc = "idle"
    /\ cli_cmd = ""
    /\ cli_args = NoArgs
    /\ cli_shp = Unparsable
    /\ cli_point = <<>>
    /\ cli_loaded = FALSE
    /\ cli_queried = FALSE
    /\ cli_radius = 0
    /\ cli_out = {}
    /\ cli_raised = None
    /\ cli_last = NoRun

\* The command has run: what it got is printed, or the failure ends it.
Ran(cmd, args, content, radius, got) ==
    /\ cli_pc' = "exited"
    /\ cli_cmd' = cmd
    /\ cli_args' = args
    /\ cli_shp' = content
    /\ cli_point' = got.point
    /\ cli_loaded' = got.loaded
    /\ cli_queried' = got.queried
    /\ cli_radius' = radius
    /\ cli_out' = IF got.raised = None THEN got.value ELSE {}
    /\ cli_raised' = got.raised
    /\ UNCHANGED cli_last

\* python match_address_to_county.py --street_name_num .. --city .. --state .. --zipcode ..
MatchAddressToCounty(args, content) ==
    /\ cli_pc = "idle"
    /\ Ran("match_address_to_county", args, content, 0,
           get_county(content, FacilityAddress(args)))
    /\ UNCHANGED <<gisVars, vulnVars, urgVars>>

\* python tracts_in_radius.py --street_name_num .. --city .. --state .. --zipcode .. --radius ..
TractsInRadius(args, content) ==
    /\ cli_pc = "idle"
    /\ Ran("tracts_in_radius", args, content, miles_to_meters(RADIUS_MILES),
           get_radius_tracts(content, FacilityAddress(args), miles_to_meters(RADIUS_MILES)))
    /\ UNCHANGED <<gisVars, vulnVars, urgVars>>

\* The process is over; the next command starts afresh.
CliExit ==
    /\ cli_pc = "exited"
    /\ cli_pc' = "idle"
    /\ cli_last' = [cmd |-> cli_cmd, address |-> FacilityAddress(cli_args), shp |-> cli_shp,
                    point |-> cli_point, out |-> cli_out, raised |-> cli_raised]
    /\ UNCHANGED <<cli_cmd, cli_args, cli_shp, cli_point, cli_loaded, cli_queried,
                   cli_radius, cli_out, cli_raised>>
    /\ UNCHANGED <<gisVars, vulnVars, urgVars>>

CliArgs == [street_name_num : Streets, city : Cities, state : StateAbbrs, zipcode : Zipcodes,
            radius : RadiusArgs]

CliNext ==
    \/ \E args \in CliArgs, content \in ShpContents : MatchAddressToCounty(args, content)
    \/ \E args \in CliArgs, content \in ShpContents : TractsInRadius(args, content)
    \/ CliExit

Init == GisInit /\ VulnInit /\ CliInit /\ UrgInit

\* the two command line tools, run one after the other
SpecCli == Init /\ [][CliNext]_vars

\* get_sourrounding_census_tracts, called again and again
SpecGis == Init /\ [][GisNext]_vars

\* the vulnerability script, run once
SpecVuln == Init /\ [][VulnNext]_vars

\* the urgency section, run for one request after another
SpecUrgency == Init /\ [][UrgNext]_vars

\* Address resolution by either entry point: a session calls
\* get_sourrounding_census_tracts or runs the command line tools.  The two
\* share no state, so what holds of each alone holds of both together.
ResolveNext ==
    \/ CliInit /\ GisNext
    \/ GisInit /\ CliNext
SpecResolve == Init /\ [][ResolveNext]_vars

(***************************************************************************)
(* The claims                                                              *)
(***************************************************************************)

\* The call has returned and the call before it returned for the same point
\* over the same data frame.
SamePointAndFrame ==
    /\ pc = "returned"
    /\ prev.frame.bound
    /\ prev.coords = coords
    /\ prev.frame = state_dataframe

\* C1: for one point and one loaded tract data frame, the GEOIDs returned for
\* the smaller of two radii are among the GEOIDs returned for the larger.
C1_MonotonicContainment ==
    SamePointAndFrame =>
        /\ (prev.mile_radius < mile_radius => prev.geoids \subseteq census_tract_geoids)
        /\ (mile_radius < prev.mile_radius => census_tract_geoids \subseteq prev.geoids)

\* Two calls for one point, the second with the larger radius and with more
\* tracts than the first, which had some.
C1_Witness ==
    /\ SamePointAndFrame
    /\ prev.mile_radius < mile_radius
    /\ prev.geoids # {}
    /\ prev.geoids # census_tract_geoids

RegionalCounted == vpc \in {"county_count", "add", "done"}
CountyCounted == vpc \in {"add", "done"}

\* The tracts whose SVI values are the claim's example A:10, B:20, C:30, D:40.
ExampleReference == {"25017000100", "25017000200", "25017000300", "25009000100"}
ExampleLocal == {"25017000100", "25017000300"}

\* The number of tracts of local whose SVI is at least the per-th percentile
\* of the reference's values, the percentile interpolated linearly between
\* the order statistics next to position per / 100 * (n - 1).
ClaimedCount(local, reference, per) ==
    LET s == SortedSvis(reference)
        n == Len(s)
        lo == (per * (n - 1)) \div 100
        hi == IF lo + 1 < n THEN lo + 1 ELSE lo
        t100 == 100 * s[lo + 1] + (per * (n - 1) - 100 * lo) * (s[hi + 1] - s[lo + 1])
    IN  Cardinality({ f \in local : 100 * SviValue[f] >= t100 })

\* C2 (amended): each count is the number of local tracts whose SVI is at
\* least the linearly interpolated percentile of the reference's SVI values;
\* for the reference 10, 20, 30, 40 and the 75th percentile that value is
\* 32.5, and of the local tracts with 10 and 30 none is counted.
C2_CountAtPercentile ==
    /\ (RegionalCounted /\ regional_svis # {}) =>
          /\ regional_top_quartile_count = <<ClaimedCount(local_svis, regional_svis, percentile)>>
          /\ (regional_svis = ExampleReference /\ percentile = 75) =>
                /\ regional_score = Num100(3250)
                /\ (local_svis = ExampleLocal => regional_top_quartile_count = <<0>>)
    /\ (CountyCounted /\ county_svis # {}) =>
          county_top_quartile_count = <<ClaimedCount(local_svis, county_svis, percentile)>>

\* The example's reference at the 75th percentile, with a local tract whose
\* SVI (35) lies between 32.5 and 37.5: it is counted.
C2_Witness ==
    /\ RegionalCounted
    /\ regional_svis = ExampleReference
    /\ percentile = 75
    /\ local_svis = {"25025000100"}
    /\ regional_top_quartile_count = <<1>>

\* C2 as stated: the same, with 37.5 as the example's threshold value.
C2_Original ==
    /\ (RegionalCounted /\ regional_svis # {}) =>
          /\ regional_top_quartile_count = <<ClaimedCount(local_svis, regional_svis, percentile)>>
          /\ (regional_svis = ExampleReference /\ percentile = 75) =>
                /\ regional_score = Num100(3750)
                /\ (local_svis = ExampleLocal => regional_top_quartile_count = <<0>>)
    /\ (CountyCounted /\ county_svis # {}) =>
          county_top_quartile_count = <<ClaimedCount(local_svis, county_svis, percentile)>>

\* C3: a count leaves out the local tracts that are not in the reference
\* and returns, next to the count, how many those are.
C3_SkippedReported ==
    /\ RegionalCounted =>
          /\ Len(regional_top_quartile_count) = 2
          /\ regional_top_quartile_count[1] =
                top_quartile_count(local_svis \cap regional_svis, regional_score)
          /\ regional_top_quartile_count[2] = Cardinality(local_svis \ regional_svis)
          /\ regional_top_quartile_count[1] + regional_top_quartile_count[2]
                <= Cardinality(local_svis)
    /\ CountyCounted =>
          /\ Len(county_top_quartile_count) = 2
          /\ county_top_quartile_count[1] =
                top_quartile_count(local_svis \cap county_svis, county_score)
          /\ county_top_quartile_count[2] = Cardinality(local_svis \ county_svis)
          /\ county_top_quartile_count[1] + county_top_quartile_count[2]
                <= Cardinality(local_svis)

C6_EmptyReferenceFails ==
    /\ ~(RegionalCounted /\ regional_svis = {})
    /\ ~(CountyCounted /\ county_svis = {})

\* C7: a query is answered only after the boundary dataset was loaded, a
\* dataset that does not parse or is empty is never loaded (its load fails),
\* and without a loaded dataset no query returns.
C7_TwoPhaseLifecycle ==
    /\ pc \in {"overlay", "returned"} => state_dataframe.bound
    /\ state_dataframe.bound => state_dataframe.rows # {}
    /\ (pc = "raised" /\ raised = "DriverError") => ~state_dataframe.bound

\* C9: an address without a match ends the call at the lookup with
\* UnknownPostalCode: no coordinates, no data frame read, no overlay.
C9_UnknownAddressFailsAtOnce ==
    (pc \in {"read_state", "read_file", "overlay", "returned", "raised"} /\ ~location.found) =>
        /\ pc = "raised"
        /\ raised = "UnknownPostalCode"
        /\ coords = NoCoords
        /\ ~state_dataframe.bound
        /\ census_tract_geoids = {}

CountyRan == cli_pc = "exited" /\ cli_cmd = "match_address_to_county"

SamePostalCode ==
    /\ cli_pc = "exited"
    /\ cli_last.cmd = cli_cmd
    /\ cli_last.shp = cli_shp
    /\ cli_last.address[4] = cli_args.zipcode

C11_RadiusSupplied ==
    (cli_pc = "exited" /\ cli_cmd = "tracts_in_radius") =>
        cli_radius = miles_to_meters(cli_args.radius)

\* The rank of a surge capacity: Conventional below Contingency below Crisis.
SurgeRank(surge) ==
    IF surge = "Crisis" THEN 3 ELSE IF surge = "Contingency" THEN 2 ELSE 1

\* C12: of two requests that were scored, the one in the more severe surge
\* capacity has the strictly higher urgency score, whatever the two report
\* as their current supply.
C12_StratifiedBySurge ==
    (upc = "scored" /\ urg_last.urgency_score # <<>> /\
     SurgeRank(dat.surge) > SurgeRank(urg_last.dat.surge)) =>
        urgency_score[1] > urg_last.urgency_score[1]

\* The tracts of frame that share area with the true disk of radius d
\* (metres) around p.
DiskIntersection(frame, p, d) == { t \in frame : Distance2(t, p) < d * d }

\* C13: the GEOIDs a call returns are exactly those of the tracts that share
\* area with the true disk of the call's radius around its point.
C13_BufferIsDisk ==
    pc = "returned" =>
        census_tract_geoids =
            GeoidsOf(DiskIntersection(state_dataframe.rows, coords, BallD(mile_radius)))

=============================================================================
